---------------------------- MODULE Spec2Model ----------------------------
(***************************************************************************)
(* SecureShip: the scan-report store (services/storage), the per-file      *)
(* analyzer with its batch loop (services/analyzer) and the two scan       *)
(* handlers (routes/api POST /scan, routes/webhook POST /webhook).         *)
(*                                                                         *)
(* The specifications share the variables:                                 *)
(*   Spec        the store: saveScan, the queries, a process restart that  *)
(*               runs loadScans against the snapshot file;                 *)
(*   SpecScan    the two handlers, one step per stretch between awaits,    *)
(*               writing to the same store;                                *)
(*   SpecAnalyze analyzeFiles: the batch loop and the in-flight            *)
(*               analyzeFile calls of one scan;                            *)
(*   SpecNorm    analyzeFile's parsing/normalising and the aggregator as   *)
(*               pure functions of a bounded LLM response;                 *)
(*   SpecAgg     the aggregator over the findings of a whole pull request; *)
(*   SpecLoad    loadScans at startup on a snapshot file of any content;   *)
(*   SpecList    listScans over stores of several reports;                 *)
(*   SpecRestore saveScan of the reports POST /scan builds, and a process  *)
(*               restart on the snapshot;                                  *)
(*   SpecNotify  the three GitHub notifications of one webhook scan.       *)
(***************************************************************************)
EXTENDS Integers, Sequences, FiniteSets, TLC

VARIABLES
    scansById,      \* storage: Map<string, ScanReport>, entries in insertion order
    scansByRepo,    \* storage: Map<string, string[]>, entries in insertion order
    dataDir,        \* whether DATA_DIR exists on disk
    disk,           \* the file SCANS_FILE
    nextId,         \* number of ids uuidv4() has handed out (ids are never reused)
    lastOp,         \* the last store operation, with what it returned
    nmFile,         \* SpecNorm: the file analyzeFile is called with
    nmResp,         \* SpecNorm: how the LLM call of that file ends
    nmPc,           \* SpecNorm: "call", "returned", "aggregated"
    nmOut,          \* SpecNorm: what analyzeFile's promise settled with
    nmResult,       \* SpecNorm: the AnalysisResult built from it
    anFiles,        \* SpecAnalyze: the files analyzeFiles is called with
    anPc,           \* SpecAnalyze: "ready", "awaiting", "done", "rejected"
    anCode,         \* SpecAnalyze: codeFiles
    anI,            \* SpecAnalyze: the loop index i
    anCalls,        \* SpecAnalyze: per code file, its analyzeFile call
    anFindings,     \* SpecAnalyze: findings collected so far
    anResult,       \* SpecAnalyze: the AnalysisResult returned
    reqs,           \* SpecScan: the HTTP requests, each with its handler's position
    ntFindings,     \* SpecNotify: result.findings of the scan being reported
    ntTasks,        \* SpecNotify: the promises of the three GitHub notifications
    ntK,            \* SpecNotify: the finding whose fallback issue comment is in flight
    ntFirst,        \* SpecNotify: the notification that rejected first
    ntPc,           \* SpecNotify: "awaiting" (at await Promise.all), "done"
    ntLog           \* SpecNotify: what was written to the console

storeVars == <<scansById, scansByRepo, dataDir, disk, nextId, lastOp>>

normVars == <<nmFile, nmResp, nmPc, nmOut, nmResult>>

anVars == <<anFiles, anPc, anCode, anI, anCalls, anFindings, anResult>>

notifyVars == <<ntFindings, ntTasks, ntK, ntFirst, ntPc, ntLog>>

scanVars == <<reqs, notifyVars>>

vars == <<storeVars, normVars, anVars, scanVars>>

-----------------------------------------------------------------------------
(* Bounds *)

\* saveScan calls over the life of the snapshot file
MaxScans == 2

\* elements of a JSON array in an LLM response
MaxRaw == 2

\* files of one pull request
MaxFiles == 8

\* HTTP requests (POST /scan, POST /webhook) the server receives
MaxRequests == 2

\* elements of the array in a snapshot file found at startup
MaxEntries == 2

\* reports in the stores the listing is checked on
MaxStored == 4

\* findings of one pull request handed to the aggregator
MaxFindings == 4

-----------------------------------------------------------------------------
(* JavaScript Map: a sequence of <<key, value>> entries in insertion order *)

EmptyMap == <<>>

MapKeys(m) == [i \in 1..Len(m) |-> m[i][1]]

MapValues(m) == [i \in 1..Len(m) |-> m[i][2]]

MapHas(m, k) == \E i \in 1..Len(m) : m[i][1] = k

MapIndex(m, k) == CHOOSE i \in 1..Len(m) : m[i][1] = k

MapGet(m, k) == m[MapIndex(m, k)][2]

\* Map.prototype.set: a new key is appended, an existing key keeps its place
MapSet(m, k, v) ==
    IF MapHas(m, k)
    THEN [m EXCEPT ![MapIndex(m, k)] = <<k, v>>]
    ELSE Append(m, <<k, v>>)

Range(s) == {s[i] : i \in 1..Len(s)}

-----------------------------------------------------------------------------
(* types/index.ts: findings, and the aggregator of services/analyzer.ts *)

Severities == {"critical", "high", "medium", "low"}

\* severities in the order generateSummary lists them
SeverityOrder == <<"critical", "high", "medium", "low">>

\* findings.filter(f => f.severity === sev).length
CountSeverity(fs, sev) == Cardinality({i \in 1..Len(fs) : fs[i].severity = sev})

\* findings.some(f => f.severity === sev)
SomeSeverity(fs, sev) == \E i \in 1..Len(fs) : fs[i].severity = sev

determineOverallRisk(fs) ==
    IF SomeSeverity(fs, "critical") THEN "critical"
    ELSE IF SomeSeverity(fs, "high") THEN "high"
    ELSE IF SomeSeverity(fs, "medium") THEN "medium"
    ELSE IF SomeSeverity(fs, "low") THEN "low"
    ELSE "none"

\* mutant of SummaryParts: a tier without findings is listed too, with count 0
RECURSIVE SummaryPartsWithZeros(_, _)
SummaryPartsWithZeros(fs, k) ==
    IF k > Len(SeverityOrder) THEN <<>>
    ELSE <<[count |-> CountSeverity(fs, SeverityOrder[k]), tier |-> SeverityOrder[k]]>>
         \o SummaryPartsWithZeros(fs, k + 1)

\* parts.push(...) for each tier with a non-zero count, in SeverityOrder
RECURSIVE SummaryParts(_, _)
SummaryParts(fs, k) ==
    IF k > Len(SeverityOrder) THEN <<>>
    ELSE LET n == CountSeverity(fs, SeverityOrder[k])
         IN  (IF n > 0 THEN <<[count |-> n, tier |-> SeverityOrder[k]]>> ELSE <<>>)
             \o SummaryParts(fs, k + 1)

\* the summary line: the fixed sentence, or "Found <n> security issue(s): <parts>"
generateSummary(fs) ==
    IF Len(fs) = 0
    THEN [noIssues |-> TRUE, n |-> 0, parts |-> <<>>]
    ELSE [noIssues |-> FALSE, n |-> Len(fs), parts |-> SummaryParts(fs, 1)]

\* analyzeFiles' return value for the collected findings
AnalysisResult(fs) ==
    [findings |-> fs, summary |-> generateSummary(fs), overallRisk |-> determineOverallRisk(fs)]

-----------------------------------------------------------------------------
(* services/analyzer.ts: analyzeFile *)

\* f.confidence >= 0.7, confidences counted in tenths
ConfidenceThreshold == 7

\* a file name is its stem and its extension
CodeExtensions ==
    {".ts", ".tsx", ".js", ".jsx", ".py", ".go", ".java",
     ".rb", ".php", ".cs", ".cpp", ".c", ".rs", ".swift", ".kt"}

\* codeExtensions.some(ext => filename.endsWith(ext))
isCodeFile(filename) == filename.ext \in CodeExtensions

(***************************************************************************)
(* The LLM's response text is a sequence of segments:                      *)
(*   [seg |-> "prose"]              words with no bracket in them          *)
(*   [seg |-> "open"]               a lone "["                             *)
(*   [seg |-> "close"]              a lone "]"                             *)
(*   [seg |-> "array", items |-> a] the text of the JSON array a           *)
(* An element of a JSON array is [json |-> "null"], [json |-> "scalar"]    *)
(* (a number, string or boolean), [json |-> "array", items |-> a] or       *)
(* [json |-> "object", obj |-> r], r a record of the object's members.     *)
(***************************************************************************)
HasOpen(sg) == sg.seg \in {"open", "array"}

HasClose(sg) == sg.seg \in {"close", "array"}

\* text.match(/\[[\s\S]*\]/): from the first "[" to the last "]" after it (greedy)
RegexMatch(text) ==
    LET opens == {i \in 1..Len(text) : HasOpen(text[i])}
        first == CHOOSE i \in opens : \A j \in opens : i <= j
        closes == {i \in 1..Len(text) : HasClose(text[i]) /\ i >= first
                                        /\ (i = first => text[i].seg = "array")}
        last == CHOOSE i \in closes : \A j \in closes : i >= j
    IN  IF opens = {} \/ closes = {} THEN [found |-> FALSE, slice |-> <<>>]
        ELSE [found |-> TRUE, slice |-> SubSeq(text, first, last)]

\* JSON.parse(jsonMatch[0]): the matched text is a JSON document when it is one array,
\* or brackets around nothing or around one such document
RECURSIVE JSONParseArray(_)
JSONParseArray(slice) ==
    IF Len(slice) = 1 /\ slice[1].seg = "array"
    THEN [threw |-> FALSE, value |-> slice[1].items]
    ELSE IF Len(slice) >= 2 /\ slice[1].seg = "open" /\ slice[Len(slice)].seg = "close"
    THEN IF Len(slice) = 2 THEN [threw |-> FALSE, value |-> <<>>]
         ELSE LET inner == JSONParseArray(SubSeq(slice, 2, Len(slice) - 1))
              IN  IF inner.threw THEN [threw |-> TRUE, value |-> <<>>]
                  ELSE [threw |-> FALSE,
                        value |-> <<[json |-> "array", items |-> inner.value]>>]
    ELSE [threw |-> TRUE, value |-> <<>>]

\* reading f.confidence throws a TypeError when f is null
ReadThrows(f) == f.json = "null"

\* mutant of ConfidentEnough: the threshold a tenth too low
ConfidentEnoughLow(f) ==
    /\ f.json = "object"
    /\ "confidence" \in DOMAIN f.obj
    /\ f.obj.confidence >= ConfidenceThreshold - 1

\* f.confidence >= 0.7: false when f has no such member
ConfidentEnough(f) ==
    /\ f.json = "object"
    /\ "confidence" \in DOMAIN f.obj
    /\ f.obj.confidence >= ConfidenceThreshold

\* { ...f, file: file.filename }
WithFile(f, filename) ==
    [k \in DOMAIN f.obj \cup {"file"} |-> IF k = "file" THEN filename ELSE f.obj[k]]

\* findings.filter(f => f.confidence >= 0.7).map(f => ({...f, file}))
Normalize(raw, filename) ==
    LET kept == SelectSeq(raw, ConfidentEnough)
    IN  [i \in 1..Len(kept) |-> WithFile(kept[i], filename)]

\* the try block of analyzeFile for one response of the LLM call
analyzeFileTry(file, resp) ==
    IF resp.kind # "text" THEN [threw |-> TRUE, findings |-> <<>>]
    ELSE LET m == RegexMatch(resp.text)
             parsed == JSONParseArray(m.slice)
         IN  IF ~m.found THEN [threw |-> FALSE, findings |-> <<>>]
             ELSE IF parsed.threw THEN [threw |-> TRUE, findings |-> <<>>]
             ELSE IF \E i \in 1..Len(parsed.value) : ReadThrows(parsed.value[i])
                  THEN [threw |-> TRUE, findings |-> <<>>]
             ELSE [threw |-> FALSE, findings |-> Normalize(parsed.value, file.filename)]

\* mutant of analyzeFile: no catch block, an error inside rejects the promise
analyzeFileNoCatch(file, resp) ==
    IF ~file.hasPatch THEN [rejected |-> FALSE, findings |-> <<>>]
    ELSE LET t == analyzeFileTry(file, resp)
         IN  [rejected |-> t.threw, findings |-> t.findings]

\* analyzeFile(file) when the LLM call ends with `resp`: how its promise settles
analyzeFile(file, resp) ==
    IF ~file.hasPatch THEN [rejected |-> FALSE, findings |-> <<>>]
    ELSE LET t == analyzeFileTry(file, resp)
         IN  IF t.threw THEN [rejected |-> FALSE, findings |-> <<>>]
             ELSE [rejected |-> FALSE, findings |-> t.findings]

-----------------------------------------------------------------------------
(* analyzeFile and the aggregator on one bounded LLM response: SpecNorm *)

\* severities an LLM may write into a finding: the four it is asked for, or another word
RawSeverities == Severities \cup {"info"}

\* objects of an LLM array: findings of every severity with confidence 0.6, 0.7 or 1.0,
\* one without a confidence, one that names a file itself
RawObjects ==
    { [type |-> "issue", severity |-> sv, line |-> 1, confidence |-> c] :
        sv \in RawSeverities, c \in {6, 7, 10} }
    \cup { [type |-> "issue", severity |-> "high", line |-> 2],
           [type |-> "issue", severity |-> "high", line |-> 3, confidence |-> 9,
            file |-> "elsewhere.ts"] }

RawItems ==
    { [json |-> "object", obj |-> o] : o \in RawObjects }
    \cup { [json |-> "null"], [json |-> "scalar"] }

RawArrays == UNION { [1..n -> RawItems] : n \in 0..MaxRaw }

Prose == [seg |-> "prose"]

ArraySeg(a) == [seg |-> "array", items |-> a]

\* response texts: the array alone, inside prose or a markdown fence, after a stray
\* bracket, before a second array; and texts with no array in them
ResponseTexts ==
    UNION { { <<ArraySeg(a)>>,
              <<Prose, ArraySeg(a), Prose>>,
              <<[seg |-> "open"], Prose, ArraySeg(a)>>,
              <<ArraySeg(a), Prose, ArraySeg(<<>>)>> } : a \in RawArrays }
    \cup { <<>>, <<Prose>>, <<[seg |-> "open"], Prose>>, <<[seg |-> "close"], Prose>> }

\* how the LLM call can end: fetch rejects, a non-OK status, a body that is no
\* { response: string }, or a text
Responses ==
    { [kind |-> "reject", text |-> <<>>], [kind |-> "notOk", text |-> <<>>],
      [kind |-> "badBody", text |-> <<>>] }
    \cup { [kind |-> "text", text |-> t] : t \in ResponseTexts }

SourceFile(name, ext, hasPatch) ==
    [filename |-> [name |-> name, ext |-> ext], hasPatch |-> hasPatch]

NoResult == [rejected |-> FALSE, findings |-> <<>>]

NormInit ==
    /\ nmFile \in {SourceFile("a", ".ts", TRUE), SourceFile("b", ".ts", FALSE)}
    /\ nmResp \in Responses
    /\ nmPc = "call"
    /\ nmOut = NoResult
    /\ nmResult = AnalysisResult(<<>>)

NormIdle ==
    /\ nmFile = SourceFile("a", ".ts", TRUE)
    /\ nmResp = [kind |-> "reject", text |-> <<>>]
    /\ nmPc = "idle"
    /\ nmOut = NoResult
    /\ nmResult = AnalysisResult(<<>>)

\* the promise of analyzeFile(nmFile) settles
NmAnalyzeFile ==
    /\ nmPc = "call"
    /\ nmOut' = analyzeFile(nmFile, nmResp)
    /\ nmPc' = "returned"
    /\ UNCHANGED <<nmFile, nmResp, nmResult>>

\* analyzeFiles builds its result from the findings of that one file
NmAggregate ==
    /\ nmPc = "returned"
    /\ ~nmOut.rejected
    /\ nmResult' = AnalysisResult(nmOut.findings)
    /\ nmPc' = "aggregated"
    /\ UNCHANGED <<nmFile, nmResp, nmOut>>

-----------------------------------------------------------------------------
(* services/analyzer.ts: analyzeFiles, the batch loop: SpecAnalyze *)

batchSize == 5

\* the j-th changed file of the pull request: the third is no code file, the
\* eighth has no patch (GitHub leaves the patch out of binary and oversized files)
ChangedFile(j) == SourceFile(j, IF j = 3 THEN ".md" ELSE ".ts", j # 8)

AnalysisInputs == { [j \in 1..n |-> ChangedFile(j)] : n \in 0..MaxFiles }

RespReject == [kind |-> "reject", text |-> <<>>]

RespNoJson == [kind |-> "text", text |-> <<Prose>>]

RespNullItem == [kind |-> "text", text |-> <<ArraySeg(<<[json |-> "null"]>>)>>]

RespFinding ==
    [kind |-> "text",
     text |-> <<Prose,
                ArraySeg(<<[json |-> "object",
                            obj |-> [type |-> "issue", severity |-> "critical",
                                     line |-> 1, confidence |-> 9]]>>),
                Prose>>]

\* how the LLM call of a file of the scan ends
AnResponses == {RespReject, RespNoJson, RespNullItem, RespFinding}

NotStarted == [status |-> "notStarted", resp |-> RespReject, out |-> NoResult]

\* mutant of BatchRange: slice(i) instead of slice(i, i + batchSize)
BatchRangeToEnd(code, i) == (i + 1)..Len(code)

\* the indices of codeFiles.slice(i, i + batchSize)
BatchRange(code, i) ==
    (i + 1)..(IF i + batchSize < Len(code) THEN i + batchSize ELSE Len(code))

\* batch.map(analyzeFile): every call of the batch starts; a call for a file without
\* a patch returns at once, the others wait for their LLM call
StartBatch(calls, code, i) ==
    [k \in DOMAIN calls |->
        IF k \in BatchRange(code, i)
        THEN IF code[k].hasPatch
             THEN [status |-> "inFlight", resp |-> RespReject, out |-> NoResult]
             ELSE [status |-> "settled", resp |-> RespReject,
                   out |-> analyzeFile(code[k], RespReject)]
        ELSE calls[k]]

\* batchResults.flat() for the calls lo..hi
RECURSIVE FlatResults(_, _, _)
FlatResults(calls, lo, hi) ==
    IF lo > hi THEN <<>>
    ELSE calls[lo].out.findings \o FlatResults(calls, lo + 1, hi)

AnInit ==
    /\ anFiles \in AnalysisInputs
    /\ anPc = "ready"
    /\ anCode = <<>>
    /\ anI = 0
    /\ anCalls = <<>>
    /\ anFindings = <<>>
    /\ anResult = AnalysisResult(<<>>)

AnIdle ==
    /\ anFiles = <<>>
    /\ anPc = "idle"
    /\ anCode = <<>>
    /\ anI = 0
    /\ anCalls = <<>>
    /\ anFindings = <<>>
    /\ anResult = AnalysisResult(<<>>)

\* analyzeFiles(files) up to its first await
AnCall ==
    /\ anPc = "ready"
    /\ LET code == SelectSeq(anFiles, LAMBDA f : isCodeFile(f.filename))
       IN  /\ anCode' = code
           /\ IF Len(code) = 0
              THEN /\ anPc' = "done"
                   /\ anCalls' = <<>>
                   /\ anResult' = AnalysisResult(<<>>)
              ELSE /\ anPc' = "awaiting"
                   /\ anCalls' = StartBatch([k \in 1..Len(code) |-> NotStarted], code, 0)
                   /\ anResult' = anResult
    /\ UNCHANGED <<anFiles, anI, anFindings>>

\* the LLM call of code file k ends and analyzeFile's promise settles
AnLLMSettles(k) ==
    /\ anPc = "awaiting"
    /\ k \in DOMAIN anCalls
    /\ anCalls[k].status = "inFlight"
    /\ \E resp \in AnResponses :
          anCalls' = [anCalls EXCEPT ![k] = [status |-> "settled", resp |-> resp,
                                             out |-> analyzeFile(anCode[k], resp)]]
    /\ UNCHANGED <<anFiles, anPc, anCode, anI, anFindings, anResult>>

\* `await Promise.all(...)` resumes: on the first rejection analyzeFiles rejects;
\* with every call fulfilled the results are pushed and the loop goes on
AnBatchResumes ==
    LET batch == BatchRange(anCode, anI)
        rejected == \E k \in batch : anCalls[k].status = "settled" /\ anCalls[k].out.rejected
        i2 == anI + batchSize
        fs == anFindings \o FlatResults(anCalls, anI + 1, anI + Cardinality(batch))
    IN  /\ anPc = "awaiting"
        /\ rejected \/ \A k \in batch : anCalls[k].status = "settled"
        /\ IF rejected
           THEN /\ anPc' = "rejected"
                /\ UNCHANGED <<anI, anCalls, anFindings, anResult>>
           ELSE /\ anFindings' = fs
                /\ anI' = i2
                /\ IF i2 < Len(anCode)
                   THEN /\ anCalls' = StartBatch(anCalls, anCode, i2)
                        /\ anPc' = "awaiting"
                        /\ anResult' = anResult
                   ELSE /\ anCalls' = anCalls
                        /\ anPc' = "done"
                        /\ anResult' = AnalysisResult(fs)
        /\ UNCHANGED <<anFiles, anCode>>

-----------------------------------------------------------------------------
(* services/storage: reports, the snapshot file and its JSON text *)

\* a string is a sequence of characters where the code takes it apart
Slash == "/"

\* `${scan.owner}/${scan.repo}`
RepoKey(owner, repo) == owner \o <<Slash>> \o repo

ReportKey(r) == RepoKey(r.owner, r.repo)

\* the finding the analyzer hands on after normalising
MkFinding(sev, line) ==
    [type |-> "issue", severity |-> sev, file |-> "f.ts", line |-> line, confidence |-> 9]

\* finding lists of the reports the store is exercised with
ScanFindingLists ==
    { <<>>,
      <<MkFinding("critical", 1)>>,
      <<MkFinding("high", 1), MkFinding("low", 2)>> }

\* finding lists analyzeFiles can return to a handler: the above, and one with a
\* finding whose severity the LLM made up, which analyzeFile hands on unchecked
AnalyzedFindingLists ==
    ScanFindingLists \cup { <<MkFinding("medium", 1), MkFinding("info", 2)>> }

Owners == {<<"a">>}

RepoNames == {<<"b">>, <<"c">>}

\* values Date.now() returns (the wall clock may repeat a value or step back)
ScanTimes == {10, 20}

\* the ScanReport POST /scan builds (routes/api.ts) from an analysis result
MkReport(id, owner, repo, pr, sha, at, nfiles, result) ==
    [id |-> id, owner |-> owner, repo |-> repo, pullNumber |-> pr, headSha |-> sha,
     scannedAt |-> at, filesScanned |-> nfiles, findings |-> result.findings,
     summary |-> result.summary, overallRisk |-> result.overallRisk]

\* the well-formed reports with id `id`
ReportsWithId(id) ==
    { MkReport(id, o, n, 1, "sha", t, 1, AnalysisResult(fs)) :
        o \in Owners, n \in RepoNames, t \in ScanTimes, fs \in ScanFindingLists }

\* the number JSON.parse makes of a literal beyond the range of a double, such as
\* 1e999: Infinity, greater than every finite confidence (counted in tenths)
Infinity == 1000

\* null where a number stood; it equals no number
NullNumber == -1

\* JSON.stringify(scans, null, 2): the text of an array of objects, kept as the
\* value it denotes (`top` is the kind of the top-level value, `array` its
\* elements), marked complete. Strings and finite numbers (a report's pullNumber,
\* scannedAt, filesScanned) are written as they are; of a finding's numbers a finite
\* one is written as it is and Infinity as null.
JSONStringify(scans) ==
    LET number(n) == IF n = Infinity THEN NullNumber ELSE n
        finding(f) ==
            [m \in DOMAIN f |-> IF m \in {"line", "confidence"} THEN number(f[m]) ELSE f[m]]
        element(r) ==
            [m \in DOMAIN r |->
                IF m = "findings" THEN [n \in 1..Len(r[m]) |-> finding(r[m][n])] ELSE r[m]]
    IN  [complete |-> TRUE, top |-> "array",
         array |-> [i \in 1..Len(scans) |-> element(scans[i])]]

\* what a write that failed after the file was opened (and so truncated) leaves:
\* a proper prefix of the text, which is never a JSON document
TruncatedText == [complete |-> FALSE, top |-> "array", array |-> <<>>]

\* JSON.parse(data): throws on a text that is not a JSON document
JSONParse(text) ==
    IF text.complete THEN [threw |-> FALSE, top |-> text.top, value |-> text.array]
    ELSE [threw |-> TRUE, top |-> "array", value |-> <<>>]

NoFile == [exists |-> FALSE, text |-> TruncatedText]

FileWith(text) == [exists |-> TRUE, text |-> text]

\* mutant of IndexPush: the list under the key is replaced instead of extended
IndexPushReplace(index, key, id) == MapSet(index, key, <<id>>)

\* scansByRepo after `existing = get(key) || []; existing.push(id); set(key, existing)`
IndexPush(index, key, id) ==
    MapSet(index, key, (IF MapHas(index, key) THEN MapGet(index, key) ELSE <<>>) \o <<id>>)

\* how a file-system call of persistScans / loadScans can end
FsOutcomes == {"ok", "mkdirFail", "openFail", "writeFail"}

\* mutant of persistScans: the new text is appended to the file instead of replacing it
persistScansAppend(byId, dir, file, outcome) ==
    CASE outcome = "mkdirFail" -> [dataDir |-> dir, disk |-> file, threw |-> FALSE]
      [] outcome = "openFail"  -> [dataDir |-> TRUE, disk |-> file, threw |-> FALSE]
      [] outcome = "writeFail" -> [dataDir |-> TRUE, disk |-> FileWith(TruncatedText),
                                   threw |-> FALSE]
      [] OTHER                 -> [dataDir |-> TRUE,
                                   disk |-> FileWith(JSONStringify(
                                       (IF file.exists THEN file.text.array ELSE <<>>)
                                       \o MapValues(byId))),
                                   threw |-> FALSE]

\* mutant of persistScans: only the report saved last is written
persistScansLatestOnly(byId, dir, file, outcome) ==
    CASE outcome = "mkdirFail" -> [dataDir |-> dir, disk |-> file, threw |-> FALSE]
      [] outcome = "openFail"  -> [dataDir |-> TRUE, disk |-> file, threw |-> FALSE]
      [] outcome = "writeFail" -> [dataDir |-> TRUE, disk |-> FileWith(TruncatedText),
                                   threw |-> FALSE]
      [] OTHER                 -> [dataDir |-> TRUE,
                                   disk |-> FileWith(JSONStringify(
                                       SubSeq(MapValues(byId), Len(byId), Len(byId)))),
                                   threw |-> FALSE]

\* mutant of persistScans: no try/catch around the file-system calls
persistScansNoCatch(byId, dir, file, outcome) ==
    CASE outcome = "mkdirFail" -> [dataDir |-> dir, disk |-> file, threw |-> TRUE]
      [] outcome = "openFail"  -> [dataDir |-> TRUE, disk |-> file, threw |-> TRUE]
      [] outcome = "writeFail" -> [dataDir |-> TRUE, disk |-> FileWith(TruncatedText),
                                   threw |-> TRUE]
      [] OTHER                 -> [dataDir |-> TRUE,
                                   disk |-> FileWith(JSONStringify(MapValues(byId))),
                                   threw |-> FALSE]

\* persistScans(): the directory and the file it leaves, for each outcome, and whether
\* it throws (the catch block logs every error). mkdirSync is only called when the
\* directory is missing; writeFileSync opens the file with flag 'w' (truncating it)
\* and then writes, and may throw at either step.
persistScans(byId, dir, file, outcome) ==
    CASE outcome = "mkdirFail" -> [dataDir |-> dir, disk |-> file, threw |-> FALSE]
      [] outcome = "openFail"  -> [dataDir |-> TRUE, disk |-> file, threw |-> FALSE]
      [] outcome = "writeFail" -> [dataDir |-> TRUE, disk |-> FileWith(TruncatedText),
                                   threw |-> FALSE]
      [] OTHER                 -> [dataDir |-> TRUE,
                                   disk |-> FileWith(JSONStringify(MapValues(byId))),
                                   threw |-> FALSE]

\* whether persistScans can end so from this state
PersistCanEnd(dir, outcome) ==
    /\ outcome \in FsOutcomes
    /\ outcome = "mkdirFail" => ~dir

\* mutant of saveScanMaps: the report is indexed but not put into the primary map
saveScanMapsNoInsert(byId, byRepo, scan) ==
    [byId |-> byId, byRepo |-> IndexPush(byRepo, ReportKey(scan), scan.id)]

\* saveScan(scan): both maps after the insert
saveScanMaps(byId, byRepo, scan) ==
    [byId |-> MapSet(byId, scan.id, scan),
     byRepo |-> IndexPush(byRepo, ReportKey(scan), scan.id)]

\* the JSON value null
JSONNull == [jsonNull |-> TRUE]

\* the key `undefined` of a Map whose other keys are the ids uuidv4 hands out (1, 2, ...)
UndefinedKey == 0

\* scan.id of a parsed element: undefined when the member is absent
IdOf(x) == IF "id" \in DOMAIN x THEN x.id ELSE UndefinedKey

\* ${scan[f]} in a template literal: "undefined" when the member is absent
TemplateOf(x, f) == IF f \in DOMAIN x THEN x[f] ELSE <<"undefined">>

\* `${scan.owner}/${scan.repo}` of a parsed element
LoadKey(x) == RepoKey(TemplateOf(x, "owner"), TemplateOf(x, "repo"))

\* the for-loop of loadScans over the parsed value, from entry k on. The maps are
\* module-level objects changed in place: what was inserted before an element makes
\* the loop throw (reading a member of null) stays inserted.
RECURSIVE LoadLoop(_, _, _, _)
LoadLoop(scans, k, byId, byRepo) ==
    IF k > Len(scans) THEN [byId |-> byId, byRepo |-> byRepo, threw |-> FALSE]
    ELSE IF scans[k] = JSONNull THEN [byId |-> byId, byRepo |-> byRepo, threw |-> TRUE]
    ELSE LoadLoop(scans, k + 1,
                  MapSet(byId, IdOf(scans[k]), scans[k]),
                  IndexPush(byRepo, LoadKey(scans[k]), IdOf(scans[k])))

\* the kinds of JSON value `for (const scan of scans)` can iterate over; any other
\* value makes the statement throw a TypeError
Iterable == {"array", "string"}

LoadOutcomes == {"ok", "mkdirFail", "readFail"}

\* whether loadScans can end so from this state
LoadCanEnd(dir, file, outcome) ==
    /\ outcome \in LoadOutcomes
    /\ outcome = "mkdirFail" => ~dir
    /\ outcome = "readFail" => dir /\ file.exists

\* loadScans() in a fresh process (both maps empty): the maps and directory it leaves.
\* Whatever throws inside is caught and logged.
loadScans(dir, file, outcome) ==
    LET empty == [byId |-> EmptyMap, byRepo |-> EmptyMap]
        parsed == JSONParse(file.text)
        loop == LoadLoop(parsed.value, 1, EmptyMap, EmptyMap)
    IN  IF outcome = "mkdirFail"
        THEN [maps |-> empty, dataDir |-> dir, loaded |-> FALSE, threw |-> FALSE]
        ELSE IF ~file.exists
        THEN [maps |-> empty, dataDir |-> TRUE, loaded |-> FALSE, threw |-> FALSE]
        ELSE IF outcome = "readFail" \/ parsed.threw \/ parsed.top \notin Iterable
        THEN [maps |-> empty, dataDir |-> TRUE, loaded |-> FALSE, threw |-> FALSE]
        ELSE [maps |-> [byId |-> loop.byId, byRepo |-> loop.byRepo],
              dataDir |-> TRUE, loaded |-> ~loop.threw, threw |-> FALSE]

-----------------------------------------------------------------------------
(* services/storage: the queries *)

\* scansById.get(id): the report, or undefined
getScanById(byId, id) ==
    IF MapHas(byId, id) THEN [found |-> TRUE, report |-> <<MapGet(byId, id)>>]
    ELSE [found |-> FALSE, report |-> <<>>]

\* the fields of a report whose value has typeof 'number'
NumericFields == {"pullNumber", "scannedAt", "filesScanned"}

\* mutant of ListCompare: the two directions are swapped
ListCompareSwapped(a, b, sortBy, order) ==
    IF sortBy \in NumericFields
    THEN IF order = "desc" THEN a[sortBy] - b[sortBy] ELSE b[sortBy] - a[sortBy]
    ELSE 0

\* the comparator of listScans: 0 unless both values are numbers
ListCompare(a, b, sortBy, order) ==
    IF sortBy \in NumericFields
    THEN IF order = "desc" THEN b[sortBy] - a[sortBy] ELSE a[sortBy] - b[sortBy]
    ELSE 0

\* the comparator of getNotableFindings
NotableCompare(a, b) ==
    IF a.finding.severity = "critical" /\ b.finding.severity # "critical" THEN 0 - 1
    ELSE IF a.finding.severity # "critical" /\ b.finding.severity = "critical" THEN 1
    ELSE b.scan.scannedAt - a.scan.scannedAt

\* the comparator a sort call is given
Compare(c, a, b) ==
    IF c.of = "listScans" THEN ListCompare(a, b, c.sortBy, c.order)
    ELSE NotableCompare(a, b)

\* Array.prototype.sort is stable: x goes after the last element not greater than it
RECURSIVE InsertSorted(_, _, _)
InsertSorted(sorted, x, c) ==
    IF Len(sorted) = 0 THEN <<x>>
    ELSE IF Compare(c, sorted[Len(sorted)], x) > 0
         THEN Append(InsertSorted(SubSeq(sorted, 1, Len(sorted) - 1), x, c),
                     sorted[Len(sorted)])
         ELSE Append(sorted, x)

RECURSIVE StableSort(_, _)
StableSort(s, c) ==
    IF Len(s) = 0 THEN <<>>
    ELSE InsertSorted(StableSort(SubSeq(s, 1, Len(s) - 1), c), s[Len(s)], c)

\* Array.prototype.slice(start, end) with its clamping of both indices
SliceIndex(n, k) == IF k < 0 THEN (IF n + k < 0 THEN 0 ELSE n + k)
                    ELSE IF k > n THEN n ELSE k

Slice(s, start, end) ==
    SubSeq(s, SliceIndex(Len(s), start) + 1, SliceIndex(Len(s), end))

\* mutant of listScans: the page number is taken as 0-based
listScansZeroBased(byId, opt) ==
    LET all == MapValues(byId)
        filtered == IF opt.repo # <<>>
                    THEN SelectSeq(all, LAMBDA r : ReportKey(r) = opt.repo)
                    ELSE all
        sorted == StableSort(filtered, [of |-> "listScans", sortBy |-> opt.sortBy, order |-> opt.order])
        start == opt.page * opt.limit
    IN  [scans |-> Slice(sorted, start, start + opt.limit), total |-> Len(sorted)]

\* mutant of listScans: the repo option is ignored
listScansNoFilter(byId, opt) ==
    LET sorted == StableSort(MapValues(byId),
                             [of |-> "listScans", sortBy |-> opt.sortBy, order |-> opt.order])
        start == (opt.page - 1) * opt.limit
    IN  [scans |-> Slice(sorted, start, start + opt.limit), total |-> Len(sorted)]

\* listScans(options), every option given (the route fills the defaults in)
listScans(byId, opt) ==
    LET all == MapValues(byId)
        filtered == IF opt.repo # <<>>
                    THEN SelectSeq(all, LAMBDA r : ReportKey(r) = opt.repo)
                    ELSE all
        sorted == StableSort(filtered, [of |-> "listScans", sortBy |-> opt.sortBy, order |-> opt.order])
        start == (opt.page - 1) * opt.limit
    IN  [scans |-> Slice(sorted, start, start + opt.limit), total |-> Len(sorted)]

\* the value of `undefined++`
NaN == 0 - 1

\* stats.bySeverity[finding.severity]++
BumpSeverity(by, sev) ==
    IF sev \in DOMAIN by
    THEN [by EXCEPT ![sev] = IF @ = NaN THEN NaN ELSE @ + 1]
    ELSE [k \in DOMAIN by \cup {sev} |-> IF k = sev THEN NaN ELSE by[k]]

RECURSIVE BumpAll(_, _, _)
BumpAll(by, fs, k) ==
    IF k > Len(fs) THEN by ELSE BumpAll(BumpSeverity(by, fs[k].severity), fs, k + 1)

\* the loop of getStats from scan k on; lastScanAt null is [set |-> FALSE]
RECURSIVE StatsLoop(_, _, _)
StatsLoop(stats, scans, k) ==
    IF k > Len(scans) THEN stats
    ELSE LET scan == scans[k]
             newer == ~stats.lastScanAt.set \/ stats.lastScanAt.at = 0
                      \/ scan.scannedAt > stats.lastScanAt.at
         IN  StatsLoop(
                 [totalScans |-> stats.totalScans,
                  totalFindings |-> stats.totalFindings + Len(scan.findings),
                  bySeverity |-> BumpAll(stats.bySeverity, scan.findings, 1),
                  lastScanAt |-> IF newer THEN [set |-> TRUE, at |-> scan.scannedAt]
                                 ELSE stats.lastScanAt],
                 scans, k + 1)

getStats(byId) ==
    StatsLoop([totalScans |-> Len(byId), totalFindings |-> 0,
               bySeverity |-> [sev \in Severities |-> 0],
               lastScanAt |-> [set |-> FALSE, at |-> 0]],
              MapValues(byId), 1)

\* the (scan, finding) pairs of one scan with severity critical or high
NotableOf(scan) ==
    LET pairs == [i \in 1..Len(scan.findings) |-> [scan |-> scan, finding |-> scan.findings[i]]]
    IN  SelectSeq(pairs, LAMBDA p : p.finding.severity \in {"critical", "high"})

RECURSIVE NotablePairs(_, _)
NotablePairs(scans, k) ==
    IF k > Len(scans) THEN <<>> ELSE NotableOf(scans[k]) \o NotablePairs(scans, k + 1)

getNotableFindings(byId, limit) ==
    Slice(StableSort(NotablePairs(MapValues(byId), 1), [of |-> "getNotableFindings"]), 0, limit)

\* Array.from(scansByRepo.keys())
getRepos(byRepo) == MapKeys(byRepo)

-----------------------------------------------------------------------------
(* The store as a state machine *)

\* mutant of uuidv4: the same id again
uuidv4Repeats(n) == 1

\* uuidv4(): an id no earlier call returned
uuidv4(n) == n + 1

\* ids a client may ask for: every id handed out so far and one that never was
QueryIds == 1..(MaxScans + 1)

\* option records GET /scans passes to listScans (repo <<>> is "no filter")
ListOptions ==
    { [page |-> 1, limit |-> 20, repo |-> <<>>, sortBy |-> "scannedAt", order |-> "desc"],
      [page |-> 2, limit |-> 1, repo |-> <<>>, sortBy |-> "scannedAt", order |-> "asc"],
      [page |-> 1, limit |-> 20, repo |-> <<"a", "/", "b">>, sortBy |-> "owner", order |-> "desc"] }

\* limits GET /notable passes on: Math.min(parseInt(req.query.limit) || 50, 200) is
\* the number in the query when that is not 0, negative numbers included
NotableLimits == {-1, 1, 50}

\* the process has started for the first time: loadScans found no snapshot
StoreInit ==
    /\ scansById = EmptyMap
    /\ scansByRepo = EmptyMap
    /\ dataDir \in BOOLEAN
    /\ disk = NoFile
    /\ nextId = 0
    /\ lastOp = [op |-> "loadScans", outcome |-> "ok", loaded |-> FALSE, threw |-> FALSE]

\* the store of a specification that does not exercise it
StoreIdle == StoreInit /\ dataDir

\* saveScan(scan) with a report POST /scan built; `outcome` is how persistScans ends
DoSaveScan(scan, outcome) ==
    LET maps == saveScanMaps(scansById, scansByRepo, scan)
        fs == persistScans(maps.byId, dataDir, disk, outcome)
    IN  /\ PersistCanEnd(dataDir, outcome)
        /\ scansById' = maps.byId
        /\ scansByRepo' = maps.byRepo
        /\ dataDir' = fs.dataDir
        /\ disk' = fs.disk
        /\ lastOp' = [op |-> "saveScan", scan |-> scan, persist |-> outcome,
                      threw |-> fs.threw]

SaveScan ==
    /\ nextId < MaxScans
    /\ \E scan \in ReportsWithId(uuidv4(nextId)), outcome \in FsOutcomes :
          DoSaveScan(scan, outcome)
    /\ nextId' = uuidv4(nextId)

\* the process ends and a new one starts: index.ts runs loadScans() on empty maps
Restart ==
    \E outcome \in LoadOutcomes :
       /\ LoadCanEnd(dataDir, disk, outcome)
       /\ LET l == loadScans(dataDir, disk, outcome)
          IN  /\ scansById' = l.maps.byId
              /\ scansByRepo' = l.maps.byRepo
              /\ dataDir' = l.dataDir
              /\ lastOp' = [op |-> "loadScans", outcome |-> outcome, loaded |-> l.loaded,
                            threw |-> l.threw]
       /\ UNCHANGED <<disk, nextId>>

GetScanById ==
    /\ \E id \in QueryIds :
          lastOp' = [op |-> "getScanById", id |-> id, result |-> getScanById(scansById, id)]
    /\ UNCHANGED <<scansById, scansByRepo, dataDir, disk, nextId>>

\* mutant of DoListScans: the sort is done on the store itself, which is left in
\* the order of the listing
DoListScansInPlace(opt) ==
    LET sorted == listScans(scansById, [opt EXCEPT !.page = 1, !.limit = Len(scansById) + 1,
                                                  !.repo = <<>>]).scans
    IN  /\ lastOp' = [op |-> "listScans", options |-> opt,
                      result |-> listScans(scansById, opt)]
        /\ scansById' = [i \in 1..Len(sorted) |-> <<sorted[i].id, sorted[i]>>]
        /\ UNCHANGED <<scansByRepo, dataDir, disk, nextId>>

\* GET /scans with the options `opt`
DoListScans(opt) ==
    /\ lastOp' = [op |-> "listScans", options |-> opt, result |-> listScans(scansById, opt)]
    /\ UNCHANGED <<scansById, scansByRepo, dataDir, disk, nextId>>

ListScans == \E opt \in ListOptions : DoListScans(opt)

GetStats ==
    /\ lastOp' = [op |-> "getStats", result |-> getStats(scansById)]
    /\ UNCHANGED <<scansById, scansByRepo, dataDir, disk, nextId>>

GetNotableFindings ==
    /\ \E limit \in NotableLimits :
          lastOp' = [op |-> "getNotableFindings", limit |-> limit,
                     result |-> getNotableFindings(scansById, limit)]
    /\ UNCHANGED <<scansById, scansByRepo, dataDir, disk, nextId>>

GetRepos ==
    /\ lastOp' = [op |-> "getRepos", result |-> getRepos(scansByRepo)]
    /\ UNCHANGED <<scansById, scansByRepo, dataDir, disk, nextId>>

-----------------------------------------------------------------------------
(* routes/api.ts POST /scan and routes/webhook.ts POST /webhook: SpecScan.
   A handler runs from one await to the next in one step. *)

\* repo.split('/')
RECURSIVE Split(_, _)
Split(chars, sep) ==
    IF \A i \in 1..Len(chars) : chars[i] # sep THEN <<chars>>
    ELSE LET i == CHOOSE i \in 1..Len(chars) :
                     chars[i] = sep /\ \A j \in 1..(i - 1) : chars[j] # sep
         IN  <<SubSeq(chars, 1, i - 1)>> \o Split(SubSeq(chars, i + 1, Len(chars)), sep)

\* values of req.body.repo: missing, not a string, or a string
RepoInputs ==
    { [type |-> "undefined", chars |-> <<>>], [type |-> "number", chars |-> <<>>] }
    \cup { [type |-> "string", chars |-> c] :
             c \in { <<>>, <<"a">>, <<"a", "/", "b">>, <<"a", "/", "c">>,
                     <<"/", "b">>, <<"a", "/", "b", "/", "c">> } }

\* values of req.body.pr: missing, a string, or a number
PrInputs ==
    { [type |-> "undefined", n |-> 0], [type |-> "string", n |-> 1],
      [type |-> "number", n |-> 0], [type |-> "number", n |-> 1] }

\* the first validation error of POST /scan, "" when the body is valid
ScanInputError(repo, pr) ==
    IF repo.type # "string" \/ repo.chars = <<>>
    THEN "Missing or invalid repo"
    ELSE IF pr.type # "number" \/ pr.n = 0
    THEN "Missing or invalid pr"
    ELSE IF Len(Split(repo.chars, Slash)) # 2
    THEN "Invalid repo format"
    ELSE ""

\* GitHub knows the pull request: fetchPRFiles can return its files
PullRequestExists(owner, name, pr) == owner \in Owners /\ name \in RepoNames /\ pr = 1

\* prData.files.length / context.files.length
FileCounts == {0, 1}

NoRequest ==
    [kind |-> "none", pc |-> "none", owner |-> <<>>, repo |-> <<>>, pr |-> 0,
     nfiles |-> 0, status |-> 0, message |-> "", analyzed |-> FALSE, saves |-> 0]

\* no notification is being posted
NotifyIdle ==
    /\ ntFindings = <<>>
    /\ ntTasks = [review |-> "none", summary |-> "none", status |-> "none"]
    /\ ntK = 0
    /\ ntFirst = "none"
    /\ ntPc = "idle"
    /\ ntLog = <<>>

ScanInit == reqs = [i \in 1..MaxRequests |-> NoRequest] /\ NotifyIdle

ScanIdle == reqs = <<>> /\ NotifyIdle

\* POST /scan arrives: validation, then `await fetchPRFiles(...)`
ApiReceive(i, repo, pr) ==
    LET err == ScanInputError(repo, pr)
        parts == Split(repo.chars, Slash)
    IN  /\ reqs[i].pc = "none"
        /\ reqs' = [reqs EXCEPT ![i] =
              IF err # ""
              THEN [NoRequest EXCEPT !.kind = "api", !.pc = "done", !.status = 400,
                                     !.message = err]
              ELSE [NoRequest EXCEPT !.kind = "api", !.pc = "fetching",
                                     !.owner = parts[1], !.repo = parts[2], !.pr = pr.n]]
        /\ UNCHANGED storeVars

\* fetchPRFiles returned: null (any GitHub or network error), or the files
ApiFetched(i, found, nfiles) ==
    /\ reqs[i].kind = "api"
    /\ reqs[i].pc = "fetching"
    /\ found => PullRequestExists(reqs[i].owner, reqs[i].repo, reqs[i].pr)
    /\ reqs' = [reqs EXCEPT ![i] =
          IF ~found
          THEN [@ EXCEPT !.pc = "done", !.status = 404, !.message = "Could not fetch PR"]
          ELSE IF nfiles = 0
          THEN [@ EXCEPT !.pc = "done", !.status = 400,
                         !.message = "No files found in this PR"]
          ELSE [@ EXCEPT !.pc = "analyzing", !.nfiles = nfiles]]
    /\ UNCHANGED storeVars

\* analyzeFiles returned: the report is built and saved, then the response is sent;
\* an error thrown on the way is answered with 500
ApiAnalyzed(i, fs, at, outcome) ==
    LET r == reqs[i]
        scan == MkReport(uuidv4(nextId), r.owner, r.repo, r.pr, "sha", at, r.nfiles,
                         AnalysisResult(fs))
    IN  /\ r.kind = "api"
        /\ r.pc = "analyzing"
        /\ DoSaveScan(scan, outcome)
        /\ nextId' = uuidv4(nextId)
        /\ reqs' = [reqs EXCEPT ![i] =
              IF lastOp'.threw
              THEN [@ EXCEPT !.pc = "done", !.status = 500, !.message = "Analysis failed",
                             !.analyzed = TRUE, !.saves = @ + 1]
              ELSE [@ EXCEPT !.pc = "done", !.status = 200, !.message = "Scan complete",
                             !.analyzed = TRUE, !.saves = @ + 1]]

WebhookSignatures == {"missing", "bad", "good"}

WebhookEvents == {"pull_request", "push"}

WebhookActions == {"opened", "synchronize", "reopened", "closed"}

\* POST /webhook arrives: signature, event and action are checked, 202 is sent, and
\* the handler goes on to `await getPullRequestFiles(...)`; initializeOctokit throws
\* when the app's credentials are not configured
WebhookReceive(i, sig, event, action, configured, repo) ==
    /\ reqs[i].pc = "none"
    /\ reqs' = [reqs EXCEPT ![i] =
          IF sig # "good"
          THEN [NoRequest EXCEPT !.kind = "webhook", !.pc = "done", !.status = 401,
                                 !.message = "Invalid signature"]
          ELSE IF event # "pull_request"
          THEN [NoRequest EXCEPT !.kind = "webhook", !.pc = "done", !.status = 200,
                                 !.message = "Event ignored"]
          ELSE IF action \notin {"opened", "synchronize", "reopened"}
          THEN [NoRequest EXCEPT !.kind = "webhook", !.pc = "done", !.status = 200,
                                 !.message = "Action ignored"]
          ELSE IF ~configured
          THEN [NoRequest EXCEPT !.kind = "webhook", !.pc = "done", !.status = 202,
                                 !.message = "Error processing webhook"]
          ELSE [NoRequest EXCEPT !.kind = "webhook", !.pc = "fetching", !.status = 202,
                                 !.message = "Processing",
                                 !.owner = <<"a">>, !.repo = repo, !.pr = 1]]
    /\ UNCHANGED storeVars

\* getPullRequestFiles settled: a rejection is caught and logged; with the files
\* the handler goes on to `await analyzeFiles(context.files)`
WebhookFetched(i, ok, nfiles) ==
    /\ reqs[i].kind = "webhook"
    /\ reqs[i].pc = "fetching"
    /\ reqs' = [reqs EXCEPT ![i] =
          IF ~ok THEN [@ EXCEPT !.pc = "done", !.message = "Error processing webhook"]
          ELSE [@ EXCEPT !.pc = "analyzing", !.nfiles = nfiles]]
    /\ UNCHANGED storeVars

\* analyzeFiles returned: the three GitHub posts are started and awaited together
WebhookAnalyzed(i) ==
    /\ reqs[i].kind = "webhook"
    /\ reqs[i].pc = "analyzing"
    /\ reqs' = [reqs EXCEPT ![i] = [@ EXCEPT !.pc = "notifying", !.analyzed = TRUE]]
    /\ UNCHANGED storeVars

\* `await Promise.all([...])` resumes, fulfilled or with the first rejection
WebhookNotified(i, ok) ==
    /\ reqs[i].kind = "webhook"
    /\ reqs[i].pc = "notifying"
    /\ reqs' = [reqs EXCEPT ![i] =
          [@ EXCEPT !.pc = "done",
                    !.message = IF ok THEN "Posted results" ELSE "Error processing webhook"]]
    /\ UNCHANGED storeVars

Init == StoreInit /\ NormIdle /\ AnIdle /\ ScanIdle

Next ==
    \/ SaveScan /\ UNCHANGED <<normVars, anVars, scanVars>>
    \/ Restart /\ UNCHANGED <<normVars, anVars, scanVars>>
    \/ GetScanById /\ UNCHANGED <<normVars, anVars, scanVars>>
    \/ ListScans /\ UNCHANGED <<normVars, anVars, scanVars>>
    \/ GetStats /\ UNCHANGED <<normVars, anVars, scanVars>>
    \/ GetNotableFindings /\ UNCHANGED <<normVars, anVars, scanVars>>
    \/ GetRepos /\ UNCHANGED <<normVars, anVars, scanVars>>

Spec == Init /\ [][Next]_vars

-----------------------------------------------------------------------------
(* Claims about the store, checked under Spec *)

\* the ids of the stored reports with repo key k, in the primary map's order
IdsOfRepo(byId, k) ==
    LET rs == SelectSeq(MapValues(byId), LAMBDA r : ReportKey(r) = k)
    IN  [i \in 1..Len(rs) |-> rs[i].id]

\* C1: the repo index is consistent with the primary map: the index has one entry per
\* repo key of a stored report, the list under key k is the ids of the stored reports
\* of k, each once, in insertion order, and every indexed id is a key of the primary map.
C1_IndexConsistent ==
    /\ \A i, j \in 1..Len(scansByRepo) : scansByRepo[i][1] = scansByRepo[j][1] => i = j
    /\ Range(MapKeys(scansByRepo)) = {ReportKey(r) : r \in Range(MapValues(scansById))}
    /\ \A i \in 1..Len(scansByRepo) :
          /\ scansByRepo[i][2] = IdsOfRepo(scansById, scansByRepo[i][1])
          /\ \A n \in 1..Len(scansByRepo[i][2]) : MapHas(scansById, scansByRepo[i][2][n])

\* C1 witness: after a saveScan, one repo holds two ids
C1_Witness ==
    /\ lastOp.op = "saveScan"
    /\ \E i \in 1..Len(scansByRepo) : Len(scansByRepo[i][2]) = 2

\* C2: a stored report is immutable: no store operation of the running process
\* (saveScan of another report, or any query) changes or removes what getScanById
\* returns for an id that is already stored.
C2_ReportsImmutable ==
    [][lastOp'.op # "loadScans" =>
          \A id \in QueryIds :
             MapHas(scansById, id) =>
                getScanById(scansById', id) = getScanById(scansById, id)]_vars

\* C2 witness: a query answered while an earlier report and a later one are stored
C2_Witness ==
    /\ lastOp.op = "listScans"
    /\ Len(scansById) = 2

\* C4: right after saveScan(r), getScanById(r.id) is r; and an id that was never
\* handed to saveScan is not found.
C4_RoundTrip ==
    /\ lastOp.op = "saveScan" =>
          getScanById(scansById, lastOp.scan.id) = [found |-> TRUE, report |-> <<lastOp.scan>>]
    /\ \A id \in QueryIds : id > nextId => ~getScanById(scansById, id).found

\* C4 witness: a second report has just been saved and a third id is still unused
C4_Witness ==
    /\ lastOp.op = "saveScan"
    /\ lastOp.scan.id = 2
    /\ Len(scansById) = 2

\* C9: after a saveScan whose persist succeeded, the snapshot file parses to exactly
\* the reports of the primary map, in its order.
C9_SnapshotIsFullState ==
    (lastOp.op = "saveScan" /\ lastOp.persist = "ok") =>
        /\ disk.exists
        /\ ~JSONParse(disk.text).threw
        /\ JSONParse(disk.text).value = MapValues(scansById)

\* C9 witness: a successful persist of two reports
C9_Witness ==
    /\ lastOp.op = "saveScan"
    /\ lastOp.persist = "ok"
    /\ Len(scansById) = 2

\* what C10 says of the in-memory state after a saveScan whose persist failed
MemoryKeeps(scan, byId, byRepo) ==
    /\ getScanById(byId, scan.id) = [found |-> TRUE, report |-> <<scan>>]
    /\ MapHas(byRepo, ReportKey(scan))
    /\ scan.id \in Range(MapGet(byRepo, ReportKey(scan)))
    /\ scan \in Range(listScans(byId, [page |-> 1, limit |-> 20, repo |-> <<>>,
                                       sortBy |-> "scannedAt", order |-> "desc"]).scans)
    /\ getStats(byId).totalScans = Len(byId)

\* C10 as claimed: a failed persist does not throw, r stays in both maps, and the
\* snapshot file is left as it was.
C10_FailedPersistLeavesSnapshot ==
    [][(lastOp'.op = "saveScan" /\ lastOp'.persist # "ok") =>
          /\ ~lastOp'.threw
          /\ MemoryKeeps(lastOp'.scan, scansById', scansByRepo')
          /\ disk' = disk]_vars

\* C10 amended: a failed persist does not throw and r stays in both maps; the snapshot
\* file is left as it was when the failure came before the file was opened, and is
\* left truncated (no JSON document) when the write itself failed.
C10_FailedPersistKeepsMemory ==
    [][(lastOp'.op = "saveScan" /\ lastOp'.persist # "ok") =>
          /\ ~lastOp'.threw
          /\ MemoryKeeps(lastOp'.scan, scansById', scansByRepo')
          /\ lastOp'.persist \in {"mkdirFail", "openFail"} => disk' = disk
          /\ lastOp'.persist = "writeFail" => disk'.exists /\ JSONParse(disk'.text).threw]_vars

\* C10 witness: a persist failed while an earlier snapshot was on disk
C10_Witness ==
    /\ lastOp.op = "saveScan"
    /\ lastOp.persist = "openFail"
    /\ disk.exists
    /\ Len(JSONParse(disk.text).value) = 1
    /\ Len(scansById) = 2

\* the operations that only query the store
QueryOps == {"getScanById", "listScans", "getStats", "getNotableFindings", "getRepos"}

\* two recorded calls are calls of the same operation with the same arguments
SameCall(a, b) ==
    /\ a.op = b.op
    /\ a.op = "getScanById" => a.id = b.id
    /\ a.op = "listScans" => a.options = b.options
    /\ a.op = "getNotableFindings" => a.limit = b.limit

\* C17: a query (getStats, listScans, getNotableFindings, getScanById, getRepos)
\* changes neither the primary map, nor the repo index, nor the order of the stored
\* reports, nor the snapshot file; the same query made again right after returns
\* the same result, and getStats and listScans answer after it as they did before.
C17_QueriesReadOnly ==
    [][lastOp'.op \in QueryOps =>
          /\ scansById' = scansById
          /\ scansByRepo' = scansByRepo
          /\ disk' = disk
          /\ dataDir' = dataDir
          /\ SameCall(lastOp, lastOp') => lastOp'.result = lastOp.result
          /\ getStats(scansById') = getStats(scansById)
          /\ \A opt \in ListOptions : listScans(scansById', opt) = listScans(scansById, opt)]_vars

\* C17 witness: a listing by descending scannedAt has put the report saved last
\* first, so the listing's order is not the store's
C17_Witness ==
    /\ lastOp.op = "listScans"
    /\ lastOp.options.sortBy = "scannedAt"
    /\ Len(lastOp.result.scans) = 2
    /\ lastOp.result.scans[1].id = 2
    /\ MapKeys(scansById) = <<1, 2>>

\* all (scan, finding) pairs of the stored reports with severity critical or high
AllNotable(byId) ==
    UNION { { [scan |-> r, finding |-> r.findings[i]] :
                i \in {j \in 1..Len(r.findings) :
                          r.findings[j].severity \in {"critical", "high"}} } :
            r \in Range(MapValues(byId)) }

\* pair p has to come before pair q: a higher tier, or the same tier and a later scan
NotableBefore(p, q) ==
    \/ p.finding.severity = "critical" /\ q.finding.severity = "high"
    \/ /\ p.finding.severity = q.finding.severity
       /\ p.scan.scannedAt > q.scan.scannedAt

\* the number of elements a limit asks for at most (none when it is not positive)
AskedFor(limit) == IF limit < 0 THEN 0 ELSE limit

\* C12: getNotableFindings(limit) returns the first `limit` of all (scan, finding)
\* pairs with severity critical or high, critical before high and within a tier by
\* descending scannedAt: only such pairs, each once, in that order, none left out
\* that had to come before a returned one, and never more than `limit` of them.
C12_NotableFindings ==
    lastOp.op = "getNotableFindings" =>
        LET res == lastOp.result
            all == AllNotable(scansById)
            n == Cardinality(all)
        IN  /\ Len(res) = IF AskedFor(lastOp.limit) < n THEN AskedFor(lastOp.limit) ELSE n
            /\ \A i \in 1..Len(res) : res[i] \in all
            /\ \A i, j \in 1..Len(res) :
                  i < j => res[i] # res[j] /\ ~NotableBefore(res[j], res[i])
            /\ \A p \in all \ Range(res) : \A i \in 1..Len(res) : ~NotableBefore(p, res[i])

-----------------------------------------------------------------------------
(* SpecList: listScans as a function of the store and its options, over stores of
   up to MaxStored reports *)

\* the reports saveScan may have stored under the id `id`
StoredReports(id) == { r \in ReportsWithId(id) : r.findings = <<>> }

\* the primary map after n saveScan calls
StoresOf(n) ==
    { [i \in 1..n |-> <<i, f[i]>>] :
        f \in { g \in [1..n -> UNION {StoredReports(i) : i \in 1..n}] :
                  \A i \in 1..n : g[i].id = i } }

\* the options GET /scans passes to listScans: page and limit at least 1, a repo
\* filter or none, a numeric, a non-numeric or an absent sort field, any order
ListQueries ==
    { [page |-> pg[1], limit |-> pg[2], repo |-> repo, sortBy |-> sortBy, order |-> order] :
        pg \in {<<1, 20>>, <<1, 2>>, <<2, 2>>, <<3, 2>>},
        repo \in {<<>>, <<"a", "/", "b">>},
        sortBy \in {"scannedAt", "owner", "nosuch"},
        order \in {"desc", "asc", "x"} }

\* a process that has saved n reports, every persist having succeeded
ListInit ==
    \E n \in 0..MaxStored :
       /\ scansById \in StoresOf(n)
       /\ scansByRepo = LoadLoop(MapValues(scansById), 1, EmptyMap, EmptyMap).byRepo
       /\ dataDir = TRUE
       /\ disk = FileWith(JSONStringify(MapValues(scansById)))
       /\ nextId = n
       /\ lastOp = [op |-> "none"]

ListNext == (\E opt \in ListQueries : DoListScans(opt)) /\ UNCHANGED <<normVars, anVars, scanVars>>

InitList == ListInit /\ NormIdle /\ AnIdle /\ ScanIdle

SpecList == InitList /\ [][ListNext]_vars

\* the smaller of two numbers
Min(a, b) == IF a < b THEN a ELSE b

\* the stored reports that pass the repo filter, in the store's insertion order
Filtered(byId, repo) ==
    SelectSeq(MapValues(byId), LAMBDA r : repo = <<>> \/ ReportKey(r) = repo)

\* the whole filtered, sorted list, before it is cut into pages
Unpaginated(byId, opt) ==
    StableSort(Filtered(byId, opt.repo),
               [of |-> "listScans", sortBy |-> opt.sortBy, order |-> opt.order])

\* C13: for page p >= 1 and limit L >= 1, listScans returns as `total` the number of
\* reports that pass the repo filter and as `scans` the elements at positions
\* (p-1)*L+1 .. min(p*L, total) of the filtered, sorted list, so that its length is
\* min(L, max(0, total-(p-1)*L)).
C13_Pagination ==
    (lastOp.op = "listScans" /\ lastOp.options.page >= 1 /\ lastOp.options.limit >= 1) =>
        LET p == lastOp.options.page
            L == lastOp.options.limit
            res == lastOp.result
            rest == res.total - (p - 1) * L
        IN  /\ res.total = Len(Filtered(scansById, lastOp.options.repo))
            /\ res.scans = SubSeq(Unpaginated(scansById, lastOp.options),
                                  (p - 1) * L + 1, Min(p * L, res.total))
            /\ Len(res.scans) = Min(L, IF rest < 0 THEN 0 ELSE rest)

\* C13 witness: three reports, page 2 with limit 2 holds the one report left over
C13_Witness ==
    /\ lastOp.op = "listScans"
    /\ lastOp.options.page = 2
    /\ lastOp.options.limit = 2
    /\ lastOp.result.total = 3
    /\ Len(lastOp.result.scans) = 1

\* C14: listScans sorts the filtered reports by the field sortBy names when that
\* field is numeric, non-increasing for order 'desc' and non-decreasing for any other
\* order, on the whole list and so on every page; when sortBy names a non-numeric or
\* an absent field the reports come in the store's insertion order. Sorting neither
\* drops nor adds a report.
C14_SortOrder ==
    lastOp.op = "listScans" =>
        LET opt == lastOp.options
            full == Unpaginated(scansById, opt)
            page == lastOp.result.scans
            inOrder(a, b) == IF opt.order = "desc" THEN a[opt.sortBy] >= b[opt.sortBy]
                             ELSE a[opt.sortBy] <= b[opt.sortBy]
        IN  /\ Len(full) = Len(Filtered(scansById, opt.repo))
            /\ Range(full) = Range(Filtered(scansById, opt.repo))
            /\ IF opt.sortBy \in NumericFields
               THEN /\ \A i, j \in 1..Len(full) : i < j => inOrder(full[i], full[j])
                    /\ \A i, j \in 1..Len(page) : i < j => inOrder(page[i], page[j])
               ELSE full = Filtered(scansById, opt.repo)

\* C14 witness: a list in ascending scannedAt (order 'x') whose first report is the
\* one saved last
C14_Witness ==
    /\ lastOp.op = "listScans"
    /\ Len(scansById) >= 3
    /\ lastOp.options.sortBy = "scannedAt"
    /\ lastOp.options.order = "x"
    /\ Len(lastOp.result.scans) >= 2
    /\ lastOp.result.scans[1].id = Len(scansById)
    /\ lastOp.result.scans[1].scannedAt < lastOp.result.scans[2].scannedAt

\* C15: with a repo filter "a/b", listScans returns only reports whose owner/repo
\* string is "a/b", on every page, and `total` is the number of stored reports with
\* that key.
C15_RepoFilter ==
    (lastOp.op = "listScans" /\ lastOp.options.repo # <<>>) =>
        LET key(r) == r.owner \o <<"/">> \o r.repo
            res == lastOp.result
        IN  /\ \A i \in 1..Len(res.scans) : key(res.scans[i]) = lastOp.options.repo
            /\ res.total =
                  Cardinality({i \in 1..Len(scansById) :
                                 key(scansById[i][2]) = lastOp.options.repo})

\* C15 witness: the store holds reports of a/b and of a/c, and a page of the listing
\* filtered by a/b is returned
C15_Witness ==
    /\ lastOp.op = "listScans"
    /\ lastOp.options.repo = <<"a", "/", "b">>
    /\ lastOp.options.page = 2
    /\ Len(lastOp.result.scans) = 1
    /\ lastOp.result.total = 3
    /\ Len(scansById) = 4

-----------------------------------------------------------------------------
(* SpecLoad: a process starts on a snapshot file it did not necessarily write *)

\* elements a snapshot's array may hold: reports, null, an object that is no report
SnapshotElements ==
    { r \in ReportsWithId(1) \cup ReportsWithId(2) : r.findings = <<>> }
    \cup {JSONNull, [note |-> "x"]}

\* the arrays of at most MaxEntries such elements
SnapshotArrays == UNION { [1..n -> SnapshotElements] : n \in 0..MaxEntries }

\* the snapshot files a starting process may find: none, a text that is no JSON
\* document, a JSON object, a JSON string (its characters are what for-of iterates
\* over), or an array
SnapshotFiles ==
    { NoFile, FileWith(TruncatedText),
      FileWith([complete |-> TRUE, top |-> "object", array |-> <<>>]),
      FileWith([complete |-> TRUE, top |-> "string", array |-> <<[char |-> "x"]>>]) }
    \cup { FileWith(JSONStringify(a)) : a \in SnapshotArrays }

\* no process has run yet
LoadInit ==
    /\ scansById = EmptyMap
    /\ scansByRepo = EmptyMap
    /\ dataDir \in BOOLEAN
    /\ disk \in SnapshotFiles
    /\ nextId = 0
    /\ lastOp = [op |-> "none"]

LoadNext == Restart /\ UNCHANGED <<normVars, anVars, scanVars>>

InitLoad == LoadInit /\ NormIdle /\ AnIdle /\ ScanIdle

SpecLoad == InitLoad /\ [][LoadNext]_vars

\* the snapshot file holds a JSON array of ScanReport objects
WellFormedSnapshot(file) ==
    /\ file.exists
    /\ file.text.complete
    /\ file.text.top = "array"
    /\ \A i \in 1..Len(file.text.array) :
          file.text.array[i] \in ReportsWithId(1) \cup ReportsWithId(2)

\* C11: a load-on-startup failure (the directory cannot be made, the snapshot is
\* missing, unreadable, no JSON, or not an array of ScanReport objects) never throws
\* out of loadScans and leaves the primary map and the repo index empty.
C11_FailedLoadLeavesEmpty ==
    (lastOp.op = "loadScans" /\ (lastOp.outcome # "ok" \/ ~WellFormedSnapshot(disk))) =>
        /\ ~lastOp.threw
        /\ scansById = EmptyMap
        /\ scansByRepo = EmptyMap

-----------------------------------------------------------------------------
(* SpecRestore: POST /scan saves the reports it builds from what analyzeFiles
   returned, and the process restarts on the snapshot *)

\* the reports POST /scan may hand to saveScan under the id `id`. One holds a finding
\* of an LLM array whose confidence is written 1e999: JSON.parse makes it Infinity,
\* which passes f.confidence >= 0.7.
BuiltReports(id) ==
    LET overflow == [MkFinding("high", 1) EXCEPT !.confidence = Infinity]
    IN  { MkReport(id, o, n, 1, "sha", t, 1, AnalysisResult(fs)) :
            o \in Owners, n \in RepoNames, t \in ScanTimes,
            fs \in ScanFindingLists \cup {<<overflow>>} }

\* saveScan(scan) at the end of POST /scan
SaveBuilt ==
    /\ nextId < MaxScans
    /\ \E scan \in BuiltReports(uuidv4(nextId)), outcome \in FsOutcomes :
          DoSaveScan(scan, outcome)
    /\ nextId' = uuidv4(nextId)

RestoreNext ==
    \/ SaveBuilt /\ UNCHANGED <<normVars, anVars, scanVars>>
    \/ Restart /\ UNCHANGED <<normVars, anVars, scanVars>>

SpecRestore == Init /\ [][RestoreNext]_vars

\* the snapshot on disk is the one this store wrote when it last persisted
SnapshotCurrent ==
    /\ Len(scansById) > 0
    /\ disk = FileWith(JSONStringify(MapValues(scansById)))

\* the five queries answer the same on two stores
SameAnswers(byId1, byRepo1, byId2, byRepo2) ==
    /\ \A id \in QueryIds : getScanById(byId1, id) = getScanById(byId2, id)
    /\ \A opt \in ListOptions : listScans(byId1, opt) = listScans(byId2, opt)
    /\ getStats(byId1) = getStats(byId2)
    /\ \A limit \in NotableLimits :
          getNotableFindings(byId1, limit) = getNotableFindings(byId2, limit)
    /\ getRepos(byRepo1) = getRepos(byRepo2)

\* C23: when a fresh process loads the snapshot a store wrote by successful saveScan
\* calls, the primary map and the repo index it rebuilds equal those of the store that
\* wrote it (per-repo id order and multiplicity included), and getScanById, listScans,
\* getStats, getNotableFindings and getRepos answer as before the restart.
C23_RoundTrip ==
    [][(lastOp'.op = "loadScans" /\ lastOp'.outcome = "ok" /\ SnapshotCurrent) =>
          /\ scansById' = scansById
          /\ scansByRepo' = scansByRepo
          /\ SameAnswers(scansById, scansByRepo, scansById', scansByRepo')]_vars

-----------------------------------------------------------------------------
(* SpecNorm: one analyzeFile call and the aggregation of its findings *)

NormNext ==
    \/ NmAnalyzeFile /\ UNCHANGED <<storeVars, anVars, scanVars>>
    \/ NmAggregate /\ UNCHANGED <<storeVars, anVars, scanVars>>

InitNorm == NormInit /\ StoreIdle /\ AnIdle /\ ScanIdle

SpecNorm == InitNorm /\ [][NormNext]_vars

-----------------------------------------------------------------------------
(* SpecAgg: the aggregation at the end of analyzeFiles, over the findings of a
   whole pull request *)

\* allFindings when the batch loop has ended: up to MaxFindings findings, each with
\* one of the severities an LLM response can carry
CollectedFindings ==
    UNION { { [i \in 1..n |-> MkFinding(sv[i], i)] : sv \in [1..n -> RawSeverities] } :
            n \in 0..MaxFindings }

AggInit ==
    /\ nmFile = SourceFile("a", ".ts", TRUE)
    /\ nmResp = [kind |-> "reject", text |-> <<>>]
    /\ nmPc = "returned"
    /\ nmOut \in { [rejected |-> FALSE, findings |-> fs] : fs \in CollectedFindings }
    /\ nmResult = AnalysisResult(<<>>)

AggNext == NmAggregate /\ UNCHANGED <<storeVars, anVars, scanVars>>

InitAgg == AggInit /\ StoreIdle /\ AnIdle /\ ScanIdle

SpecAgg == InitAgg /\ [][AggNext]_vars

\* the permutations of 1..n
Orderings(n) == { p \in [1..n -> 1..n] : \A i, j \in 1..n : p[i] = p[j] => i = j }

\* the index of a tier in the order critical, high, medium, low
TierIndex(tier) == CHOOSE k \in 1..4 : <<"critical", "high", "medium", "low">>[k] = tier

\* C18: generateSummary returns the fixed no-issues sentence for the empty finding
\* sequence; otherwise "Found N security issue(s): ..." with N the number of findings
\* and a breakdown that lists, in the order critical, high, medium, low, exactly the
\* tiers with a non-zero count, each with its count; the findings in any other order
\* give the same summary.
C18_Summary ==
    nmPc = "aggregated" =>
        LET fs == nmResult.findings
            sm == nmResult.summary
            count(tier) == Cardinality({i \in 1..Len(fs) : fs[i].severity = tier})
        IN  /\ sm.noIssues <=> Len(fs) = 0
            /\ Len(fs) > 0 =>
                  /\ sm.n = Len(fs)
                  /\ \A i \in 1..Len(sm.parts) :
                        /\ sm.parts[i].tier \in {"critical", "high", "medium", "low"}
                        /\ sm.parts[i].count = count(sm.parts[i].tier)
                        /\ sm.parts[i].count > 0
                  /\ \A i, j \in 1..Len(sm.parts) :
                        i < j => TierIndex(sm.parts[i].tier) < TierIndex(sm.parts[j].tier)
                  /\ \A tier \in {"critical", "high", "medium", "low"} :
                        count(tier) > 0 => \E i \in 1..Len(sm.parts) : sm.parts[i].tier = tier
            /\ \A p \in Orderings(Len(fs)) :
                  generateSummary([i \in 1..Len(fs) |-> fs[p[i]]]) = sm

\* C18 witness: findings with severities low, critical, high, critical are summed up
\* as 4 issues: 2 critical, 1 high, 1 low
C18_Witness ==
    /\ nmPc = "aggregated"
    /\ [i \in 1..Len(nmResult.findings) |-> nmResult.findings[i].severity]
          = <<"low", "critical", "high", "critical">>
    /\ nmResult.summary =
          [noIssues |-> FALSE, n |-> 4,
           parts |-> <<[count |-> 2, tier |-> "critical"], [count |-> 1, tier |-> "high"],
                       [count |-> 1, tier |-> "low"]>>]

-----------------------------------------------------------------------------
(* SpecAnalyze: one call of analyzeFiles. Every LLM call ends (the HTTP client gives
   up on a silent server) and the event loop runs every continuation that is ready. *)

AnNext ==
    \/ AnCall /\ UNCHANGED <<storeVars, normVars, scanVars>>
    \/ (\E k \in 1..MaxFiles : AnLLMSettles(k)) /\ UNCHANGED <<storeVars, normVars, scanVars>>
    \/ AnBatchResumes /\ UNCHANGED <<storeVars, normVars, scanVars>>

InitAnalyze == AnInit /\ StoreIdle /\ NormIdle /\ ScanIdle

SpecAnalyze == InitAnalyze /\ [][AnNext]_vars /\ WF_vars(AnNext)

-----------------------------------------------------------------------------
(* Claims about analyzeFile and the aggregator, checked under SpecNorm *)

\* the response is a text with exactly one array in it and no stray bracket
OneArray(resp) ==
    /\ resp.kind = "text"
    /\ Cardinality({i \in 1..Len(resp.text) : resp.text[i].seg = "array"}) = 1
    /\ \A i \in 1..Len(resp.text) : resp.text[i].seg \in {"array", "prose"}

\* that array
ArrayOf(resp) ==
    resp.text[CHOOSE i \in 1..Len(resp.text) : resp.text[i].seg = "array"].items

\* the positions of a raw array that hold a finding with confidence >= 0.7
ConfidentAt(raw) ==
    {i \in 1..Len(raw) : /\ raw[i].json = "object"
                         /\ "confidence" \in DOMAIN raw[i].obj
                         /\ raw[i].obj.confidence >= 7}

\* out[n] is the raw finding r with `file` set to filename and nothing else changed
SameButFile(o, r, filename) ==
    /\ DOMAIN o = DOMAIN r.obj \cup {"file"}
    /\ o.file = filename
    /\ \A k \in DOMAIN r.obj \ {"file"} : o[k] = r.obj[k]

\* C7: every finding analyzeFile returns has confidence >= 0.7 and the analyzed file's
\* name as `file`; when the response holds one array, the output is the confident
\* findings of that array (all of them unless an element made the call fail), in
\* their input order, with no member other than `file` changed.
C7_NormalizerOutput ==
    nmPc # "call" =>
        LET out == nmOut.findings
        IN  /\ ~nmOut.rejected
            /\ \A n \in 1..Len(out) :
                  /\ "confidence" \in DOMAIN out[n]
                  /\ out[n].confidence >= 7
                  /\ out[n].file = nmFile.filename
            /\ (nmFile.hasPatch /\ OneArray(nmResp)) =>
                  LET raw == ArrayOf(nmResp)
                      kept == ConfidentAt(raw)
                  IN  \/ /\ \E i \in 1..Len(raw) : raw[i].json = "null"
                         /\ out = <<>>
                      \/ /\ Len(out) = Cardinality(kept)
                         /\ \E pos \in [1..Len(out) -> kept] :
                               /\ \A a, b \in 1..Len(out) : a < b => pos[a] < pos[b]
                               /\ \A n \in 1..Len(out) :
                                     SameButFile(out[n], raw[pos[n]], nmFile.filename)

\* C7 witness: of two raw findings the first is dropped and the second, which named
\* another file, is kept
C7_Witness ==
    /\ nmPc = "returned"
    /\ OneArray(nmResp)
    /\ Len(ArrayOf(nmResp)) = 2
    /\ ConfidentAt(ArrayOf(nmResp)) = {2}
    /\ "file" \in DOMAIN ArrayOf(nmResp)[2].obj
    /\ Len(nmOut.findings) = 1

\* the rank of a severity in critical > high > medium > low > none
SeverityRank(sv) ==
    CASE sv = "critical" -> 4
      [] sv = "high" -> 3
      [] sv = "medium" -> 2
      [] sv = "low" -> 1
      [] OTHER -> 0

\* C8: for every finding sequence the normalizer produces, overallRisk is `none`
\* exactly when the sequence is empty, and otherwise the highest severity present.
C8_RiskIsMaxSeverity ==
    nmPc = "aggregated" =>
        LET fs == nmResult.findings
            risk == nmResult.overallRisk
        IN  /\ risk = "none" <=> Len(fs) = 0
            /\ risk # "none" =>
                  /\ \E n \in 1..Len(fs) : fs[n].severity = risk
                  /\ \A n \in 1..Len(fs) : SeverityRank(fs[n].severity) <= SeverityRank(risk)
            /\ (\E n \in 1..Len(fs) : fs[n].severity = "critical") => risk = "critical"

\* the positions of a response text that hold a well-formed JSON array of findings
FindingArraysAt(text) ==
    {i \in 1..Len(text) : /\ text[i].seg = "array"
                          /\ \A n \in 1..Len(text[i].items) : text[i].items[n].json = "object"}

\* the elements of a raw array that pass the confidence filter, in their order
KeptOf(raw) ==
    SelectSeq(raw, LAMBDA r : "confidence" \in DOMAIN r.obj /\ r.obj.confidence >= 7)

\* C21: whenever the response text holds a well-formed JSON array of findings,
\* analyzeFile returns the findings of the first such array that pass the confidence
\* filter, whatever prose, brackets or further arrays stand before or after it.
C21_FirstArrayExtracted ==
    (nmPc # "call" /\ nmFile.hasPatch /\ nmResp.kind = "text"
       /\ FindingArraysAt(nmResp.text) # {}) =>
        LET at == FindingArraysAt(nmResp.text)
            first == CHOOSE i \in at : \A j \in at : i <= j
            kept == KeptOf(nmResp.text[first].items)
            out == nmOut.findings
        IN  /\ Len(out) = Len(kept)
            /\ \A n \in 1..Len(out) : SameButFile(out[n], kept[n], nmFile.filename)

-----------------------------------------------------------------------------
(* Claims about analyzeFiles, checked under SpecAnalyze *)

InFlight == {k \in DOMAIN anCalls : anCalls[k].status = "inFlight"}

\* the batch a code file belongs to
BatchNo(k) == (k - 1) \div 5

\* C5: no analyzeFile call of a later batch has started while a call of an earlier
\* batch has not completed, and at most 5 per-file analyses are in flight.
C5_BatchesSerialized ==
    /\ Cardinality(InFlight) <= 5
    /\ \A j, k \in DOMAIN anCalls :
          (BatchNo(j) < BatchNo(k) /\ anCalls[k].status # "notStarted")
             => anCalls[j].status = "settled"

\* C5 witness: a call of the second batch is in flight
C5_Witness ==
    /\ anPc = "awaiting"
    /\ \E k \in InFlight : BatchNo(k) = 1

\* the LLM call of a file ended in a failure
Failed(resp) == resp \in {RespReject, RespNoJson, RespNullItem}

\* what a file whose LLM call ended with `resp` contributes
Contribution(file, resp) ==
    IF ~file.hasPatch \/ Failed(resp) THEN <<>>
    ELSE <<[type |-> "issue", severity |-> "critical", line |-> 1, confidence |-> 9,
            file |-> file.filename]>>

RECURSIVE Contributions(_, _, _)
Contributions(code, calls, k) ==
    IF k > Len(code) THEN <<>>
    ELSE Contribution(code[k], calls[k].resp) \o Contributions(code, calls, k + 1)

\* a failed call settles fulfilled with no finding, analyzeFiles never rejects, and
\* its result holds the findings of the files that did not fail, in file order
C6_FailuresContained ==
    /\ anPc # "rejected"
    /\ \A k \in DOMAIN anCalls :
          (anCalls[k].status = "settled" /\ Failed(anCalls[k].resp)) =>
             anCalls[k].out = [rejected |-> FALSE, findings |-> <<>>]
    /\ anPc = "done" =>
          /\ \A k \in DOMAIN anCalls : anCalls[k].status = "settled"
          /\ anResult.findings = Contributions(anCode, anCalls, 1)

-----------------------------------------------------------------------------
(* SpecScan: the two scan handlers, any number of requests interleaved *)

ScanNext ==
    \/ (\E i \in 1..MaxRequests, repo \in RepoInputs, pr \in PrInputs :
           ApiReceive(i, repo, pr)) /\ UNCHANGED <<normVars, anVars, notifyVars>>
    \/ (\E i \in 1..MaxRequests, found \in BOOLEAN, nfiles \in FileCounts :
           ApiFetched(i, found, nfiles)) /\ UNCHANGED <<normVars, anVars, notifyVars>>
    \/ (\E i \in 1..MaxRequests, fs \in AnalyzedFindingLists, at \in ScanTimes,
           outcome \in FsOutcomes :
           ApiAnalyzed(i, fs, at, outcome)) /\ UNCHANGED <<normVars, anVars, notifyVars>>
    \/ (\E i \in 1..MaxRequests, sig \in WebhookSignatures, event \in WebhookEvents,
           action \in WebhookActions, configured \in BOOLEAN, repo \in RepoNames :
           WebhookReceive(i, sig, event, action, configured, repo))
       /\ UNCHANGED <<normVars, anVars, notifyVars>>
    \/ (\E i \in 1..MaxRequests, ok \in BOOLEAN, nfiles \in FileCounts :
           WebhookFetched(i, ok, nfiles)) /\ UNCHANGED <<normVars, anVars, notifyVars>>
    \/ (\E i \in 1..MaxRequests : WebhookAnalyzed(i)) /\ UNCHANGED <<normVars, anVars, notifyVars>>
    \/ (\E i \in 1..MaxRequests, ok \in BOOLEAN : WebhookNotified(i, ok))
       /\ UNCHANGED <<normVars, anVars, notifyVars>>

InitScan == ScanInit /\ StoreInit /\ NormIdle /\ AnIdle

SpecScan == InitScan /\ [][ScanNext]_vars

\* C3: every scan whose analysis completed, webhook-triggered or on demand, is saved
\* exactly once when its handler has finished, so the store holds one report per
\* completed scan.
C3_EveryScanSaved ==
    LET finished == {i \in DOMAIN reqs : reqs[i].pc = "done" /\ reqs[i].analyzed}
    IN  /\ \A i \in finished : reqs[i].saves = 1
        /\ (\A i \in DOMAIN reqs : reqs[i].pc \in {"none", "done"})
              => Len(scansById) = Cardinality(finished)

\* the number of findings of the reports rs[k..] that satisfy `sev = "" or severity sev`
RECURSIVE FindingCount(_, _, _)
FindingCount(rs, k, sev) ==
    IF k > Len(rs) THEN 0
    ELSE Cardinality({i \in 1..Len(rs[k].findings) :
                        sev = "" \/ rs[k].findings[i].severity = sev})
         + FindingCount(rs, k + 1, sev)

\* C16: in every store state the handlers can reach, getStats() returns totalScans =
\* the number of stored reports, totalFindings = the number of findings over all of
\* them, bySeverity = the count of findings per severity (critical, high, medium,
\* low), which sum to totalFindings, and lastScanAt = the largest scannedAt stored,
\* or null when nothing is stored.
C16_Stats ==
    LET res == getStats(scansById)
        rs == MapValues(scansById)
    IN  /\ res.totalScans = Len(rs)
        /\ res.totalFindings = FindingCount(rs, 1, "")
        /\ DOMAIN res.bySeverity = {"critical", "high", "medium", "low"}
        /\ \A sev \in DOMAIN res.bySeverity : res.bySeverity[sev] = FindingCount(rs, 1, sev)
        /\ res.totalFindings = FindingCount(rs, 1, "critical") + FindingCount(rs, 1, "high")
                               + FindingCount(rs, 1, "medium") + FindingCount(rs, 1, "low")
        /\ res.lastScanAt.set <=> Len(rs) > 0
        /\ res.lastScanAt.set =>
              /\ \E i \in 1..Len(rs) : rs[i].scannedAt = res.lastScanAt.at
              /\ \A i \in 1..Len(rs) : rs[i].scannedAt <= res.lastScanAt.at

\* the characters are of the form owner/name: one slash, with a name on either side
OwnerSlashName(chars) ==
    \E k \in 2..(Len(chars) - 1) :
       /\ chars[k] = "/"
       /\ \A j \in 1..Len(chars) : chars[j] = "/" => j = k

\* the body of a POST /scan request is invalid: repo missing, not a string or not of
\* the form owner/name, or pr missing or not a number
InvalidScanInput(repo, pr) ==
    \/ repo.type # "string"
    \/ ~OwnerSlashName(repo.chars)
    \/ pr.type # "number"

\* C20: a POST /scan request with invalid input is answered in the step that receives
\* it, with a 4xx status and a message, without a GitHub fetch or an analysis being
\* started, and with the primary map, the repo index and the snapshot unchanged.
C20_InvalidInputRejected ==
    [][\A i \in 1..MaxRequests, repo \in RepoInputs, pr \in PrInputs :
          (ApiReceive(i, repo, pr) /\ InvalidScanInput(repo, pr)) =>
              /\ reqs'[i].pc = "done"
              /\ reqs'[i].status \in 400..499
              /\ reqs'[i].message # ""
              /\ scansById' = scansById
              /\ scansByRepo' = scansByRepo
              /\ disk' = disk]_vars

\* every handler has finished or has not been called
AllScansFinished == \A i \in DOMAIN reqs : reqs[i].pc \in {"none", "done"}

\* the ids of the reports in the snapshot file
SnapshotIds ==
    IF disk.exists /\ disk.text.complete
    THEN {disk.text.array[n].id : n \in 1..Len(disk.text.array)}
    ELSE {}

\* a step that changes the store is a whole saveScan: the report is in the primary
\* map and in the index of its repo, and the snapshot written holds the whole map
SaveIsOneStep ==
    (scansById' # scansById \/ scansByRepo' # scansByRepo \/ disk' # disk) =>
        /\ lastOp'.op = "saveScan"
        /\ Len(scansById') = Len(scansById) + 1
        /\ MapHas(scansById', lastOp'.scan.id)
        /\ MapHas(scansByRepo', lastOp'.scan.owner \o <<"/">> \o lastOp'.scan.repo)
        /\ lastOp'.scan.id \in
              Range(MapGet(scansByRepo', lastOp'.scan.owner \o <<"/">> \o lastOp'.scan.repo))
        /\ lastOp'.persist = "ok" => SnapshotIds' = Range(MapKeys(scansById'))

\* C22: for any interleaving of scan requests, each saveScan does its insert, index
\* append and snapshot write in one step; so when the snapshot write of a saveScan
\* succeeded (and so once all scans have finished with every persist successful) the
\* snapshot holds every report saved so far, one per request that saved.
C22_NoLostSave ==
    /\ [][SaveIsOneStep]_vars
    /\ []((lastOp.op = "saveScan" /\ lastOp.persist = "ok") =>
             /\ SnapshotIds = 1..nextId
             /\ Len(disk.text.array) = Cardinality({i \in DOMAIN reqs : reqs[i].saves = 1})
             /\ AllScansFinished =>
                   \A i \in DOMAIN reqs :
                      reqs[i].saves = 1 =>
                         \E n \in 1..Len(disk.text.array) :
                            /\ disk.text.array[n].owner = reqs[i].owner
                            /\ disk.text.array[n].repo = reqs[i].repo)

\* C22 witness: two on-demand scans ran at the same time and the one received second
\* saved first; both have finished and both reports are in the snapshot
C22_Witness ==
    /\ AllScansFinished
    /\ \A i \in DOMAIN reqs : reqs[i].kind = "api" /\ reqs[i].saves = 1
    /\ lastOp.op = "saveScan"
    /\ lastOp.persist = "ok"
    /\ Len(scansById) = 2
    /\ reqs[1].repo # reqs[2].repo
    /\ scansById[1][2].repo = reqs[2].repo
    /\ SnapshotIds = {1, 2}

-----------------------------------------------------------------------------
(* SpecNotify: routes/webhook.ts from `await Promise.all([...])` on, with the three
   notifications of services/github. One step per settled GitHub call. *)

Notifications == {"review", "summary", "status"}

\* a notification's promise rejects: Promise.all takes the first rejection only
Reject(task) ==
    /\ ntTasks' = [ntTasks EXCEPT ![task] = "rejected"]
    /\ ntFirst' = IF ntFirst = "none" THEN task ELSE ntFirst

\* the handler has called the three functions and awaits Promise.all of their
\* promises; postReviewComments returns at once when there is no finding
NotifyInit ==
    /\ ntFindings \in AnalyzedFindingLists
    /\ ntTasks = [review |-> IF Len(ntFindings) = 0 THEN "fulfilled" ELSE "pending",
                  summary |-> "pending", status |-> "pending"]
    /\ ntK = 0
    /\ ntFirst = "none"
    /\ ntPc = "awaiting"
    /\ ntLog = <<>>

\* the continuation of `await Promise.all` is ready to run; it is a microtask and
\* runs before the callback of any other GitHub call
ResumeReady ==
    /\ ntPc = "awaiting"
    /\ \/ ntFirst # "none"
       \/ \A t \in Notifications : ntTasks[t] = "fulfilled"

\* octokit.pulls.createReview settles: its error is caught and logged inside
\* postReviewComments, which falls back to one issue comment per finding
NtReviewSettles(ok) ==
    /\ ntTasks.review = "pending"
    /\ ~ResumeReady
    /\ IF ok
       THEN /\ ntTasks' = [ntTasks EXCEPT !.review = "fulfilled"]
            /\ UNCHANGED <<ntK, ntLog>>
       ELSE /\ ntTasks' = [ntTasks EXCEPT !.review = "fallback"]
            /\ ntK' = 1
            /\ ntLog' = Append(ntLog, [line |-> "Error posting review comments",
                                       error |-> "createReview"])
    /\ UNCHANGED <<ntFindings, ntFirst, ntPc>>

\* `await postIssueComment(context, finding)` of the fallback loop settles: an error
\* leaves the loop and rejects the promise of postReviewComments
NtIssueCommentSettles(ok) ==
    /\ ntTasks.review = "fallback"
    /\ ~ResumeReady
    /\ IF ok
       THEN /\ ntTasks' = [ntTasks EXCEPT !.review =
                              IF ntK = Len(ntFindings) THEN "fulfilled" ELSE "fallback"]
            /\ ntK' = IF ntK = Len(ntFindings) THEN ntK ELSE ntK + 1
            /\ UNCHANGED ntFirst
       ELSE /\ Reject("review")
            /\ UNCHANGED ntK
    /\ UNCHANGED <<ntFindings, ntPc, ntLog>>

\* octokit.issues.createComment of postSummaryComment settles
NtSummarySettles(ok) ==
    /\ ntTasks.summary = "pending"
    /\ ~ResumeReady
    /\ IF ok THEN ntTasks' = [ntTasks EXCEPT !.summary = "fulfilled"] /\ UNCHANGED ntFirst
       ELSE Reject("summary")
    /\ UNCHANGED <<ntFindings, ntK, ntPc, ntLog>>

\* octokit.repos.createCommitStatus of updateCommitStatus settles
NtStatusSettles(ok) ==
    /\ ntTasks.status = "pending"
    /\ ~ResumeReady
    /\ IF ok THEN ntTasks' = [ntTasks EXCEPT !.status = "fulfilled"] /\ UNCHANGED ntFirst
       ELSE Reject("status")
    /\ UNCHANGED <<ntFindings, ntK, ntPc, ntLog>>

\* the handler resumes from `await Promise.all`: with all three fulfilled it logs
\* "Posted results"; with a rejection the catch block logs that first error
NtHandlerResumes ==
    /\ ResumeReady
    /\ \/ /\ \A t \in Notifications : ntTasks[t] = "fulfilled"
          /\ ntLog' = Append(ntLog, [line |-> "Posted results", error |-> "none"])
       \/ /\ ntFirst # "none"
          /\ ntLog' = Append(ntLog, [line |-> "Error processing webhook", error |-> ntFirst])
    /\ ntPc' = "done"
    /\ UNCHANGED <<ntFindings, ntTasks, ntK, ntFirst>>

NotifyNext ==
    \/ (\E ok \in BOOLEAN : NtReviewSettles(ok)) /\ UNCHANGED <<storeVars, normVars, anVars, reqs>>
    \/ (\E ok \in BOOLEAN : NtIssueCommentSettles(ok))
       /\ UNCHANGED <<storeVars, normVars, anVars, reqs>>
    \/ (\E ok \in BOOLEAN : NtSummarySettles(ok)) /\ UNCHANGED <<storeVars, normVars, anVars, reqs>>
    \/ (\E ok \in BOOLEAN : NtStatusSettles(ok)) /\ UNCHANGED <<storeVars, normVars, anVars, reqs>>
    \/ NtHandlerResumes /\ UNCHANGED <<storeVars, normVars, anVars, reqs>>

InitNotify == NotifyInit /\ StoreIdle /\ NormIdle /\ AnIdle /\ reqs = <<>>

SpecNotify == InitNotify /\ [][NotifyNext]_vars

\* C19: the three notifications are all attempted; once the handler has finished,
\* every notification that failed has its failure in the log; a failure stops no
\* other notification (none is left unsettled for good), and the handler ends in
\* its own try/catch without an error escaping.
C19_NotificationsContained ==
    /\ \A t \in Notifications : ntTasks[t] # "none"
    /\ ntPc \in {"awaiting", "done"}
    /\ ntPc = "done" =>
          \A t \in Notifications :
             ntTasks[t] = "rejected" => \E i \in 1..Len(ntLog) : ntLog[i].error = t

=============================================================================
